---- MODULE Spec2Model ----
(***************************************************************************)
(* A model of the BME280 driver (src/bme280.go): the Driver object, the    *)
(* bus it talks to, and the device registers behind that bus.              *)
(*                                                                         *)
(* Every exported method of Driver is one action.  A method is translated  *)
(* as an operator over a "bus context" b = [regs, trace, n]: the device    *)
(* registers, the bus operations and waits issued so far in this call, and *)
(* the number of bus operations issued.  The environment e of a call       *)
(* holds what the bus will do: which operations fail (e.fail), which       *)
(* identity reads return a wrong byte (e.wrong), which calibration block   *)
(* and which data burst the device delivers.                               *)
(***************************************************************************)
EXTENDS Integers, Sequences, FiniteSets, TLC

VARIABLES
    regs,   \* device registers 0xF2, 0xF4, 0xF5
    d,      \* the Driver: mode, initialized, calib
    last    \* the last public call: its name, argument, result and bus trace

vars == <<regs, d, last>>

----------------------------------------------------------------------------
(* Constants of src/bme280.go *)

ModeSleep  == 0
ModeForced == 1
ModeNormal == 3

Oversampling16x == 5

chipIdAddr             == 208   \* 0xD0
resetAddr              == 224   \* 0xE0
tempPressCalibDataAddr == 136   \* 0x88
humidityCalibDataAddr  == 225   \* 0xE1
pwrCtrlAddr            == 244   \* 0xF4
ctrlHumAddr            == 242   \* 0xF2
ctrlMeasAddr           == 244   \* 0xF4
configAddr             == 245   \* 0xF5
dataAddr               == 247   \* 0xF7
chipId                 == 96    \* 0x60
softResetCmd           == 182   \* 0xB6

(* Error values.  UninitializedError is the error TestRead expects. *)
NoError            == "nil"
BusError           == "bus error"
ChipIdError        == "chipId does not match expectd value"
NormalModeError    == "sensor in normal mode, cannot force measurement"
UninitializedError == "driver uninitialized"

----------------------------------------------------------------------------
(* Sequencing.  A method body is a chain of bus operations, each using    *)
(* the result of the one before.  "The({ body : r \in {op} })" reads       *)
(* "r := op; body": the operation is evaluated once and bound to r.        *)

The(S) == CHOOSE v \in S : TRUE

Result(b, err) == [b |-> b, err |-> err]

----------------------------------------------------------------------------
(* Byte arithmetic: Go's &, |, &^, <<, >> on uint8 *)

RECURSIVE And(_, _)
And(x, y) ==
    IF x = 0 \/ y = 0 THEN 0
    ELSE (x % 2) * (y % 2) + 2 * And(x \div 2, y \div 2)

RECURSIVE Or(_, _)
Or(x, y) ==
    IF x = 0 THEN y
    ELSE IF y = 0 THEN x
    ELSE (IF x % 2 = 1 \/ y % 2 = 1 THEN 1 ELSE 0) + 2 * Or(x \div 2, y \div 2)

AndNot(x, y) == x - And(x, y)

RECURSIVE Pow2(_)
Pow2(n) == IF n = 0 THEN 1 ELSE 2 * Pow2(n - 1)

Shl8(x, n) == (x * Pow2(n)) % 256
Shr(x, n)  == x \div Pow2(n)

----------------------------------------------------------------------------
(* The device behind the bus: registers that store what is written; a     *)
(* soft reset clears them.                                                  *)

ResetRegs == [F2 |-> 0, F4 |-> 0, F5 |-> 0]

DevWrite(r, addr, val) ==
    IF addr = resetAddr /\ val = softResetCmd THEN ResetRegs
    ELSE IF addr = ctrlHumAddr THEN [r EXCEPT !.F2 = val]
    ELSE IF addr = ctrlMeasAddr THEN [r EXCEPT !.F4 = val]
    ELSE IF addr = configAddr THEN [r EXCEPT !.F5 = val]
    ELSE r

DevModeBits(r) == r.F4 % 4

----------------------------------------------------------------------------
(* Integer conversions of Go: truncating division, fixed-width wrap-around *)

Quot(a, b) ==
    The({ IF b > 0
          THEN IF x >= 0 \/ x % b = 0 THEN x \div b ELSE (x \div b) + 1
          ELSE IF x >= 0 THEN -(x \div (-b)) ELSE (-x) \div (-b)
        : x \in {a} })

WrapS(x, m) == The({ IF r >= m \div 2 THEN r - m ELSE r : r \in {x % m} })

Int8(x)  == WrapS(x, 256)
Int16(x) == WrapS(x, 65536)

(* Fixed-width two's-complement arithmetic on little-endian byte limbs:   *)
(* a value of n bytes is a sequence of n numbers in 0..255.                *)

RECURSIVE Pow256(_)
Pow256(n) == IF n = 0 THEN 1 ELSE 256 * Pow256(n - 1)

(* the n-byte two's-complement image of a 32-bit signed x (sign-extended) *)
Limbs(x, n) ==
    The({ SubSeq([i \in 1..n |-> IF i <= 4 THEN (v \div Pow256(i - 1)) % 256
                                 ELSE IF v < 0 THEN 255 ELSE 0], 1, n)
        : v \in {x} })

RECURSIVE AddCarry(_, _, _, _)
AddCarry(a, b, i, c) ==
    IF i > Len(a) THEN <<>>
    ELSE The({ <<t % 256>> \o AddCarry(a, b, i + 1, t \div 256)
             : t \in {a[i] + b[i] + c} })

AddL(a, b) == The({ AddCarry(x, y, 1, 0) : x \in {a}, y \in {b} })

NegL(a) ==
    The({ AddCarry(SubSeq([i \in 1..Len(x) |-> 255 - x[i]], 1, Len(x)),
                   SubSeq([i \in 1..Len(x) |-> 0], 1, Len(x)), 1, 1)
        : x \in {a} })

RECURSIVE Col(_, _, _, _)
Col(a, b, k, i) ==
    IF i > k THEN 0 ELSE a[i] * b[k + 1 - i] + Col(a, b, k, i + 1)

RECURSIVE MulCarry(_, _, _, _)
MulCarry(a, b, k, c) ==
    IF k > Len(a) THEN <<>>
    ELSE The({ <<t % 256>> \o MulCarry(a, b, k + 1, t \div 256)
             : t \in {Col(a, b, k, 1) + c} })

MulL(a, b) == The({ MulCarry(x, y, 1, 0) : x \in {a}, y \in {b} })

(* the int32 held by 4 limbs *)
FromL4(a) ==
    a[1] + 256 * a[2] + 65536 * a[3]
    + 16777216 * (IF a[4] >= 128 THEN a[4] - 256 ELSE a[4])

(* Go's int32 +, -, * : the result wraps modulo 2^32 *)
Add32(x, y) == FromL4(AddL(Limbs(x, 4), Limbs(y, 4)))
Sub32(x, y) == FromL4(AddL(Limbs(x, 4), NegL(Limbs(y, 4))))
Mul32(x, y) == FromL4(MulL(Limbs(x, 4), Limbs(y, 4)))

Uint16LE(buf, off) == buf[off + 1] + 256 * buf[off + 2]

(* Go's int64 arithmetic, on 8 limbs.  +, - and * wrap modulo 2^64; / is   *)
(* the truncating signed division.                                         *)

I64(x) == Limbs(x, 8)

Add64(a, b) == AddL(a, b)
Sub64(a, b) == AddL(a, NegL(b))
Mul64(a, b) == MulL(a, b)

IsNegL(a)  == a[Len(a)] >= 128
IsZeroL(a) == \A i \in 1..Len(a) : a[i] = 0

(* bit k of byte x *)
Bit(x, k) == (x \div Pow2(k)) % 2

(* unsigned long division, bit by bit from the top, by a divisor below     *)
(* 2^30: the running remainder is a plain number                           *)
RECURSIVE DivBits(_, _, _, _, _)
DivBits(x, dv, k, r, q) ==
    IF k < 0 THEN [q |-> q, r |-> r]
    ELSE The({ DivBits(x, dv, k - 1, s.r, s.q)
             : s \in { The({ IF r2 >= dv THEN [r |-> r2 - dv, q |-> 2 * q + 1]
                             ELSE [r |-> r2, q |-> 2 * q]
                           : r2 \in {2 * r + Bit(x, k)} }) } })

RECURSIVE UDivSmall(_, _, _, _)
UDivSmall(n, dv, i, r) ==
    IF i = 0 THEN <<>>
    ELSE The({ Append(UDivSmall(n, dv, i - 1, s.r), s.q)
             : s \in {DivBits(n[i], dv, 7, r, 0)} })

(* the same division by a divisor of any size: the remainder is a limb     *)
(* sequence one limb longer than the operands                              *)
RECURSIVE GeL(_, _, _)
GeL(a, b, i) ==
    IF i = 0 THEN TRUE
    ELSE IF a[i] # b[i] THEN a[i] > b[i] ELSE GeL(a, b, i - 1)

Shl1L(r, bit) ==
    SubSeq([i \in 1..Len(r) |->
               ((2 * r[i]) % 256) + (IF i = 1 THEN bit ELSE r[i - 1] \div 128)],
           1, Len(r))

RECURSIVE DivBitsL(_, _, _, _, _)
DivBitsL(x, dv, k, r, q) ==
    IF k < 0 THEN [q |-> q, r |-> r]
    ELSE The({ DivBitsL(x, dv, k - 1, s.r, s.q)
             : s \in { The({ IF GeL(r2, dv, Len(dv))
                             THEN [r |-> AddL(r2, NegL(dv)), q |-> 2 * q + 1]
                             ELSE [r |-> r2, q |-> 2 * q]
                           : r2 \in {Shl1L(r, Bit(x, k))} }) } })

RECURSIVE UDivLarge(_, _, _, _)
UDivLarge(n, dv, i, r) ==
    IF i = 0 THEN <<>>
    ELSE The({ Append(UDivLarge(n, dv, i - 1, s.r), s.q)
             : s \in {DivBitsL(n[i], dv, 7, r, 0)} })

(* the number of low limbs of dv that are zero, counted from limb i *)
RECURSIVE TrailZ(_, _)
TrailZ(dv, i) == IF i > Len(dv) \/ dv[i] # 0 THEN 0 ELSE 1 + TrailZ(dv, i + 1)

ShrLimbs(a, k) ==
    SubSeq([i \in 1..Len(a) |-> IF i + k <= Len(a) THEN a[i + k] ELSE 0], 1, Len(a))

UDivPath(n, dv) ==
    IF (\A i \in 5..8 : dv[i] = 0) /\ dv[4] < 64
    THEN UDivSmall(n, FromL4(dv), 8, 0)
    ELSE UDivLarge(n, Append(dv, 0), 8, <<0, 0, 0, 0, 0, 0, 0, 0, 0>>)

(* quotient of the unsigned 8-limb values n and dv, dv not zero; whole     *)
(* zero limbs at the low end of dv are shifted out of both operands first  *)
UDiv64(n, dv) ==
    The({
    The({ UDivPath(x, y) : x \in {ShrLimbs(n, k)}, y \in {ShrLimbs(dv, k)} })
        : k \in {TrailZ(dv, 1)} })

AbsL(a) == IF IsNegL(a) THEN NegL(a) ELSE a

Div64(a, b) ==
    The({
    The({ IF IsNegL(x) # IsNegL(y) THEN NegL(q) ELSE q
        : q \in {UDiv64(AbsL(x), AbsL(y))} })
        : x \in {a}, y \in {b} })

----------------------------------------------------------------------------
(* What the device delivers: calibration blocks and data bursts.  The two  *)
(* calibration images stand for the content of the device's calibration    *)
(* memory at the time of a call; the bursts for the samples it has taken.  *)

MaxCalibTag == 2
MaxBurst    == 2

CalibTPBlock(tag) ==
    IF tag = 1
    THEN <<112, 107, 67, 103, 24, 252, 125, 142, 67, 214, 208, 11, 39,
           11, 140, 0, 249, 255, 140, 60, 248, 198, 112, 23, 0, 75>>
    ELSE <<69, 111, 111, 104, 50, 0, 130, 143, 117, 214, 208, 11, 68,
           27, 252, 255, 249, 255, 172, 38, 10, 216, 189, 16, 0, (73 + tag) % 256>>

CalibHBlock(tag) ==
    IF tag = 1
    THEN <<106, 1, 0, 19, 41, 3, 30>>
    ELSE <<93, 1, 0, 21, 196, 255, (224 + tag) % 256>>

DataBurst(k) ==
    IF k = 1
    THEN <<101, 90, 192, 126, 237, 0, 117, 48>>
    ELSE <<128, 0, 0, 128, 0, 0, 128, (k - 2) % 256>>

DevRead(r, e, addr, n, i) ==
    IF addr = chipIdAddr THEN <<IF i \in e.wrong THEN 0 ELSE chipId>>
    ELSE IF addr = tempPressCalibDataAddr THEN CalibTPBlock(e.tag)
    ELSE IF addr = humidityCalibDataAddr THEN CalibHBlock(e.tag)
    ELSE IF addr = ctrlHumAddr THEN <<r.F2>>
    ELSE IF addr = ctrlMeasAddr THEN <<r.F4>>
    ELSE IF addr = configAddr THEN <<r.F5>>
    ELSE IF addr = dataAddr THEN DataBurst(e.burst)
    ELSE [j \in 1..n |-> 0]

----------------------------------------------------------------------------
(* The bus interface.  Every operation is appended to the trace together   *)
(* with the device's mode bits at the time it is issued; val is the byte   *)
(* written, or the first byte read.                                        *)

NewBus(r) == [regs |-> r, trace |-> <<>>, n |-> 0]

Event(kind, addr, val, len, ok, r) ==
    [kind |-> kind, addr |-> addr, val |-> val, len |-> len, ok |-> ok,
     mode |-> DevModeBits(r)]

ReadReg(b, e, addr, n) ==
    LET i   == b.n + 1
        ok  == i \notin e.fail
        buf == IF ok THEN DevRead(b.regs, e, addr, n, i) ELSE [j \in 1..n |-> 0]
    IN  [b   |-> [regs  |-> b.regs,
                  trace |-> Append(b.trace, Event("R", addr, buf[1], n, ok, b.regs)),
                  n     |-> i],
         err |-> IF ok THEN NoError ELSE BusError,
         buf |-> buf]

WriteReg(b, e, addr, val) ==
    LET i  == b.n + 1
        ok == i \notin e.fail
    IN  [b   |-> [regs  |-> IF ok THEN DevWrite(b.regs, addr, val) ELSE b.regs,
                  trace |-> Append(b.trace, Event("W", addr, val, 1, ok, b.regs)),
                  n     |-> i],
         err |-> IF ok THEN NoError ELSE BusError]

(* time.Sleep(us microseconds): recorded in the trace, no bus operation *)
timeSleep(b, us) ==
    [b EXCEPT !.trace = Append(b.trace, Event("S", 0, 0, us, TRUE, b.regs))]

----------------------------------------------------------------------------
(* Settings and their register encoding *)

MkSettings(f, sb, p, t, h) ==
    [Filter |-> f, Standby |-> sb, PressureOversampling |-> p,
     TemperatureOversampling |-> t, HumidityOversampling |-> h]

ZeroSettings == MkSettings(0, 0, 0, 0, 0)

GetMode(b, e) ==
    The({ IF r.err # NoError
          THEN [b |-> r.b, err |-> r.err, mode |-> 255]
          ELSE [b |-> r.b, err |-> NoError, mode |-> And(r.buf[1], 3)]
        : r \in {ReadReg(b, e, pwrCtrlAddr, 1)} })

GetSettings(b, e) ==
    The({ IF r1.err # NoError
          THEN [b |-> r1.b, err |-> r1.err, s |-> ZeroSettings]
          ELSE
    The({ IF r2.err # NoError
          THEN [b |-> r2.b, err |-> r2.err, s |-> ZeroSettings]
          ELSE
    The({ IF r3.err # NoError
          THEN [b |-> r3.b, err |-> r3.err, s |-> ZeroSettings]
          ELSE [b |-> r3.b, err |-> NoError,
                s |-> MkSettings(Shr(And(r1.buf[1], 28), 2),     \* filter
                                 Shr(And(r1.buf[1], 224), 5),    \* standby
                                 Shr(And(r2.buf[1], 28), 2),     \* pressure
                                 Shr(And(r2.buf[1], 224), 5),    \* temperature
                                 And(r3.buf[1], 7))]             \* humidity
        : r3 \in {ReadReg(r2.b, e, ctrlHumAddr, 1)} })
        : r2 \in {ReadReg(r1.b, e, ctrlMeasAddr, 1)} })
        : r1 \in {ReadReg(b, e, configAddr, 1)} })

softReset(b, e) ==
    The({ IF w.err # NoError THEN Result(w.b, w.err)
          ELSE Result(timeSleep(w.b, 2000), NoError)
        : w \in {WriteReg(b, e, resetAddr, softResetCmd)} })

(* SetFields without the mask-clear of the old fields *)
SetFields_noClear(old, lo, hi) ==
    Or(old, Or(Shl8(And(lo, 7), 2), Shl8(And(hi, 7), 5)))

(* buf[0] with the two 3-bit fields at bits 4:2 and 7:5 replaced by lo, hi *)
SetFields(old, lo, hi) ==
    Or(AndNot(old, Or(Shl8(7, 2), Shl8(7, 5))),
       Or(Shl8(And(lo, 7), 2), Shl8(And(hi, 7), 5)))

(* loadSettings that writes the measurement-control register before the  *)
(* humidity-control register                                               *)
loadSettings_measFirst(b, e, s) ==
    The({ IF r2.err # NoError THEN Result(r2.b, r2.err) ELSE
    The({ IF w2.err # NoError THEN Result(w2.b, w2.err) ELSE
    The({ IF w1.err # NoError THEN Result(w1.b, w1.err) ELSE
    The({ IF r3.err # NoError THEN Result(r3.b, r3.err) ELSE
    The({ IF w3.err # NoError THEN Result(w3.b, w3.err)
          ELSE Result(w3.b, NoError)
        : w3 \in {WriteReg(r3.b, e, configAddr,
                           SetFields(r3.buf[1], s.Filter, s.Standby))} })
        : r3 \in {ReadReg(w1.b, e, configAddr, 1)} })
        : w1 \in {WriteReg(w2.b, e, ctrlHumAddr, And(s.HumidityOversampling, 7))} })
        : w2 \in {WriteReg(r2.b, e, ctrlMeasAddr,
                           SetFields(r2.buf[1], s.PressureOversampling,
                                     s.TemperatureOversampling))} })
        : r2 \in {ReadReg(b, e, ctrlMeasAddr, 1)} })

loadSettings(b, e, s) ==
    The({ IF w1.err # NoError THEN Result(w1.b, w1.err) ELSE
    The({ IF r2.err # NoError THEN Result(r2.b, r2.err) ELSE
    The({ IF w2.err # NoError THEN Result(w2.b, w2.err) ELSE
    The({ IF r3.err # NoError THEN Result(r3.b, r3.err) ELSE
    The({ IF w3.err # NoError THEN Result(w3.b, w3.err)
          ELSE Result(w3.b, NoError)
        : w3 \in {WriteReg(r3.b, e, configAddr,
                           SetFields(r3.buf[1], s.Filter, s.Standby))} })
        : r3 \in {ReadReg(w2.b, e, configAddr, 1)} })
        : w2 \in {WriteReg(r2.b, e, ctrlMeasAddr,
                           SetFields(r2.buf[1], s.PressureOversampling,
                                     s.TemperatureOversampling))} })
        : r2 \in {ReadReg(w1.b, e, ctrlMeasAddr, 1)} })
        : w1 \in {WriteReg(b, e, ctrlHumAddr, And(s.HumidityOversampling, 7))} })

(* Sleep that goes on after a failed soft reset *)
Sleep_ignoreReset(b, e) ==
    The({ IF g.err # NoError THEN Result(g.b, g.err) ELSE
    The({ loadSettings(r.b, e, g.s)
        : r \in {softReset(g.b, e)} })
        : g \in {GetSettings(b, e)} })

(* Sleep that does not reapply the settings it read *)
Sleep_noRestore(b, e) ==
    The({ IF g.err # NoError THEN Result(g.b, g.err)
          ELSE softReset(g.b, e)
        : g \in {GetSettings(b, e)} })

Sleep(b, e) ==
    The({ IF g.err # NoError THEN Result(g.b, g.err) ELSE
    The({ IF r.err # NoError THEN Result(r.b, r.err)
          ELSE loadSettings(r.b, e, g.s)
        : r \in {softReset(g.b, e)} })
        : g \in {GetSettings(b, e)} })

(* SetSettings that writes the settings without putting the device to sleep *)
SetSettings_noSleep(b, e, s) ==
    The({ IF g.err # NoError THEN Result(g.b, g.err)
          ELSE loadSettings(g.b, e, s)
        : g \in {GetMode(b, e)} })

SetSettings(b, e, s) ==
    The({ IF g.err # NoError THEN Result(g.b, g.err)
          ELSE IF g.mode # ModeSleep
          THEN The({ IF sl.err # NoError THEN Result(sl.b, sl.err)
                     ELSE loadSettings(sl.b, e, s)
                   : sl \in {Sleep(g.b, e)} })
          ELSE loadSettings(g.b, e, s)
        : g \in {GetMode(b, e)} })

(* SetMode that writes the mode bits alone, without the read-modify-write *)
SetMode_clobber(dr, b, e, m) ==
    The({ IF g.err # NoError THEN [d |-> dr, b |-> g.b, err |-> g.err] ELSE
    The({
    The({ IF r.err # NoError THEN [d |-> dr, b |-> r.b, err |-> NoError] ELSE
    The({ [d |-> [dr EXCEPT !.mode = m], b |-> w.b, err |-> NoError]
        : w \in {WriteReg(r.b, e, pwrCtrlAddr, And(m, 3))} })
        : r \in {ReadReg(b1, e, pwrCtrlAddr, 1)} })
        : b1 \in {IF g.mode # ModeSleep THEN Sleep(g.b, e).b ELSE g.b} })
        : g \in {GetMode(b, e)} })

(* SetMode: the result of d.Sleep() and of the final WriteReg are dropped;  *)
(* a failed read of the power-control register returns nil.                *)
SetMode(dr, b, e, m) ==
    The({ IF g.err # NoError THEN [d |-> dr, b |-> g.b, err |-> g.err] ELSE
    The({
    The({ IF r.err # NoError THEN [d |-> dr, b |-> r.b, err |-> NoError] ELSE
    The({ [d |-> [dr EXCEPT !.mode = m], b |-> w.b, err |-> NoError]
        : w \in {WriteReg(r.b, e, pwrCtrlAddr,
                          Or(AndNot(r.buf[1], 3), And(m, 3)))} })
        : r \in {ReadReg(b1, e, pwrCtrlAddr, 1)} })
        : b1 \in {IF g.mode # ModeSleep THEN Sleep(g.b, e).b ELSE g.b} })
        : g \in {GetMode(b, e)} })

----------------------------------------------------------------------------
(* Calibration Store *)

ZeroCalib ==
    [t1 |-> 0, t2 |-> 0, t3 |-> 0,
     p1 |-> 0, p2 |-> 0, p3 |-> 0, p4 |-> 0, p5 |-> 0, p6 |-> 0,
     p7 |-> 0, p8 |-> 0, p9 |-> 0,
     h1 |-> 0, h2 |-> 0, h3 |-> 0, h4 |-> 0, h5 |-> 0, h6 |-> 0,
     tFine |-> 0]

(* the assignments of readCalibData after its first read *)
DecodeTP(c, buf) ==
    [c EXCEPT !.t1 = Uint16LE(buf, 0),
              !.t2 = Int16(Uint16LE(buf, 2)),
              !.t3 = Int16(Uint16LE(buf, 4)),
              !.p1 = Uint16LE(buf, 6),
              !.p2 = Int16(Uint16LE(buf, 8)),
              !.p3 = Int16(Uint16LE(buf, 10)),
              !.p4 = Int16(Uint16LE(buf, 12)),
              !.p5 = Int16(Uint16LE(buf, 14)),
              !.p6 = Int16(Uint16LE(buf, 16)),
              !.p7 = Int16(Uint16LE(buf, 18)),
              !.p8 = Int16(Uint16LE(buf, 20)),
              !.p9 = Int16(Uint16LE(buf, 22)),
              !.h1 = buf[26]]

(* x | y on int16 operands *)
Or16(x, y) == Int16(Or(x % 65536, y % 65536))

(* the assignments of readCalibData after its second read *)
DecodeH(c, buf) ==
    [c EXCEPT !.h2 = Int16(Uint16LE(buf, 0)),
              !.h3 = buf[3],
              !.h4 = Or16(Int16(buf[4] * 16), And(buf[5], 15)),
              !.h5 = Or16(Int8(Int8(buf[6]) * 16), Shr(buf[5], 4)),
              !.h6 = Int8(buf[7])]

readCalibData(dr, b, e) ==
    The({ IF r1.err # NoError THEN [d |-> dr, b |-> r1.b, err |-> r1.err] ELSE
    The({
    The({ IF r2.err # NoError THEN [d |-> d1, b |-> r2.b, err |-> r2.err]
          ELSE [d |-> [d1 EXCEPT !.calib = DecodeH(d1.calib, r2.buf)],
                b |-> r2.b, err |-> NoError]
        : r2 \in {ReadReg(r1.b, e, humidityCalibDataAddr, 7)} })
        : d1 \in {[dr EXCEPT !.calib = DecodeTP(dr.calib, r1.buf)]} })
        : r1 \in {ReadReg(b, e, tempPressCalibDataAddr, 26)} })

----------------------------------------------------------------------------
(* Init *)

InitRetries == 5

RECURSIVE pollChipId(_, _, _)
pollChipId(b, e, retries) ==
    The({ IF r.err # NoError \/ r.buf[1] # chipId
          THEN IF retries = 0
               THEN Result(r.b, IF r.err = NoError THEN ChipIdError ELSE r.err)
               ELSE pollChipId(r.b, e, retries - 1)
          ELSE Result(r.b, NoError)
        : r \in {ReadReg(b, e, chipIdAddr, 1)} })

(* Init that marks the driver initialized although the calibration failed *)
Init_flagEarly(dr, b, e) ==
    The({ IF p.err # NoError THEN [d |-> dr, b |-> p.b, err |-> p.err] ELSE
    The({ IF r.err # NoError THEN [d |-> dr, b |-> r.b, err |-> r.err] ELSE
    The({ IF c.err # NoError
          THEN [d |-> [c.d EXCEPT !.initialized = TRUE], b |-> c.b, err |-> c.err]
          ELSE [d |-> [c.d EXCEPT !.initialized = TRUE],
                b |-> timeSleep(c.b, 1000), err |-> NoError]
        : c \in {readCalibData(dr, r.b, e)} })
        : r \in {softReset(p.b, e)} })
        : p \in {pollChipId(b, e, InitRetries)} })

Init(dr, b, e) ==
    The({ IF p.err # NoError THEN [d |-> dr, b |-> p.b, err |-> p.err] ELSE
    The({ IF r.err # NoError THEN [d |-> dr, b |-> r.b, err |-> r.err] ELSE
    The({ IF c.err # NoError THEN c
          ELSE [d |-> [c.d EXCEPT !.initialized = TRUE],
                b |-> timeSleep(c.b, 1000), err |-> NoError]
        : c \in {readCalibData(dr, r.b, e)} })
        : r \in {softReset(p.b, e)} })
        : p \in {pollChipId(b, e, InitRetries)} })

----------------------------------------------------------------------------
(* Measurement Reader *)

Min(a, b) == IF a < b THEN a ELSE b

Clamp(x, lo, hi) == IF x < lo THEN lo ELSE IF x > hi THEN hi ELSE x

(* temperature in hundredths of a degree, and the fine temperature *)
compensateTemperature(c, u) ==
    The({ [temp  |-> Clamp(Quot(Add32(Mul32(tFine, 5), 128), 256), -4000, 8500),
           tFine |-> tFine]
        : tFine \in
            { Add32(Quot(Mul32(Sub32(Quot(u, 8), Mul32(c.t1, 2)), c.t2), 2048),
                    The({ Quot(Mul32(Quot(Mul32(v2, v2), 4096), c.t3), 16384)
                        : v2 \in {Sub32(Quot(u, 16), c.t1)} })) } })

(* int64 constants of compensatePressure that exceed 31 bits *)
Two31 == <<0, 0, 0, 128, 0, 0, 0, 0>>     \* 2147483648
Two33 == <<0, 0, 0, 0, 2, 0, 0, 0>>       \* 8589934592
Two35 == <<0, 0, 0, 0, 8, 0, 0, 0>>       \* 34359738368
Two47 == <<0, 0, 0, 0, 0, 128, 0, 0>>     \* 140737488355328

(* uint32(x) * 100 / 128 for the int64 x: the product wraps modulo 2^32 *)
PressureScale(x) ==
    The({ (m[1] \div 128) + 2 * m[2] + 512 * m[3] + 131072 * m[4]
        : m \in {MulL(SubSeq(x, 1, 4), Limbs(100, 4))} })

(* compensatePressure past the test of the denominator v1 *)
pressureTail(c, u, v2, v1) ==
    The({
    The({ PressureScale(Div64(
              Add64(Div64(Add64(Add64(v4,
                        Div64(Mul64(Mul64(I64(c.p9), q), q), I64(33554432))),
                        Div64(Mul64(I64(c.p8), v4), I64(524288))),
                    I64(256)),
                    Mul64(I64(c.p7), I64(16))),
              I64(2)))
        : q \in {Div64(v4, I64(8192))} })
        : v4 \in {Div64(Mul64(Sub64(Mul64(Sub64(I64(1048576), I64(u)), Two31), v2),
                              I64(3125)), v1)} })

(* v1 of line 359, the denominator, from t = tFine - 128000 *)
pressureV1(c, t) ==
    Div64(Mul64(Add64(Two47,
                      Add64(Div64(Mul64(Mul64(t, t), I64(c.p3)), I64(256)),
                            Mul64(Mul64(t, I64(c.p2)), I64(4096)))),
                I64(c.p1)), Two33)

(* v2 of line 356 *)
pressureV2(c, t) ==
    Add64(Add64(Mul64(Mul64(t, t), I64(c.p6)),
                Mul64(Mul64(t, I64(c.p5)), I64(131072))),
          Mul64(I64(c.p4), Two35))

(* compensatePressure without the final clamp *)
compensatePressure_noClamp(c, u) ==
    The({
    The({ IF IsZeroL(v1) THEN 3000000 * 100
          ELSE pressureTail(c, u, v2, v1)
        : v1 \in {pressureV1(c, t)}, v2 \in {pressureV2(c, t)} })
        : t \in {Sub64(I64(c.tFine), I64(128000))} })

(* pressure in units of 1/10000: the code returns pressure / 100.0 / 100.0 *)
(* on the normal path and pmin / 100.0 when the denominator is zero        *)
compensatePressure(c, u) ==
    The({
    The({ IF IsZeroL(v1) THEN 3000000 * 100
          ELSE Clamp(pressureTail(c, u, v2, v1), 3000000, 11000000)
        : v1 \in {pressureV1(c, t)}, v2 \in {pressureV2(c, t)} })
        : t \in {Sub64(I64(c.tFine), I64(128000))} })

(* the first part of compensateHumidity: v5 of line 390 *)
humidityV5(c, u, v1) ==
    Quot(Add32(Sub32(Sub32(Mul32(u, 16384), Mul32(c.h4, 1048576)),
                     Mul32(c.h5, v1)), 16384), 32768)

(* v2 of line 395 *)
humidityV2(c, v1) ==
    Quot(Add32(Mul32(Add32(Quot(Mul32(Quot(Mul32(v1, c.h6), 1024),
                                      Add32(Quot(Mul32(v1, c.h3), 2048), 32768)),
                                1024), 2097152), c.h2), 8192), 16384)

(* compensateHumidity without the clamp to hmax *)
compensateHumidity_noMax(c, u) ==
    The({
    The({
    The({ Clamp(Sub32(v3, Quot(Mul32(Quot(Mul32(w, w), 128), c.h1), 16)),
                0, 419430400) \div 4096
        : w \in {Quot(v3, 32768)} })
        : v3 \in {Mul32(humidityV5(c, u, v1), humidityV2(c, v1))} })
        : v1 \in {Sub32(c.tFine, 76800)} })

(* humidity in thousandths of a percent *)
compensateHumidity(c, u) ==
    The({
    The({
    The({ Min(Clamp(Sub32(v3, Quot(Mul32(Quot(Mul32(w, w), 128), c.h1), 16)),
                    0, 419430400) \div 4096, 100000)
        : w \in {Quot(v3, 32768)} })
        : v3 \in {Mul32(humidityV5(c, u, v1), humidityV2(c, v1))} })
        : v1 \in {Sub32(c.tFine, 76800)} })

oversamplingCoefs(i) ==
    IF i = 0 THEN 0 ELSE IF i = 1 THEN 1 ELSE IF i = 2 THEN 2
    ELSE IF i = 3 THEN 4 ELSE IF i = 4 THEN 8 ELSE 16

(* float32 arithmetic of the measurement time.  A value is held as the    *)
(* number of units of 2^-24 ms; every float32 that occurs is a whole       *)
(* number of them.  RoundF32 rounds to 24 significant bits, ties to even.  *)

RECURSIVE BitLen(_)
BitLen(x) == IF x = 0 THEN 0 ELSE 1 + BitLen(x \div 2)

RoundTo(x, sh) ==
    IF sh <= 0 THEN x
    ELSE The({ Pow2(sh) * (IF x % Pow2(sh) > Pow2(sh - 1)
                              \/ (x % Pow2(sh) = Pow2(sh - 1) /\ q % 2 = 1)
                           THEN q + 1 ELSE q)
             : q \in {x \div Pow2(sh)} })

RoundF32(x) == RoundTo(x, BitLen(x) - 24)

F32_2_3   == 38587596      \* float32(2.3)   = 38587596 * 2^-24
F32_0_575 == 9646899       \* float32(0.575) =  9646899 * 2^-24
F32_1_25  == 20971520      \* 1.25           = 20971520 * 2^-24

(* math.Ceil(float64(x * 1000)) for the float32 x: with x = m * 2^sh and   *)
(* m below 2^24, x * 1000 is m * 125 * 2^(sh + 3), rounded to float32      *)
CeilTimes1000(x) ==
    The({
    The({
    The({ IF k <= 0 THEN p * Pow2(-k)
          ELSE (p \div Pow2(k)) + (IF p % Pow2(k) = 0 THEN 0 ELSE 1)
        : k \in {24 - (sh + 3)} })
        : p \in {RoundF32((x \div Pow2(sh)) * 125)} })
        : sh \in {IF BitLen(x) > 24 THEN BitLen(x) - 24 ELSE 0} })

(* the wait of forceMeasurement in microseconds *)
measTimeMicros(s) ==
    CeilTimes1000(
        RoundF32(RoundF32(RoundF32(F32_1_25
            + RoundF32(F32_2_3 * oversamplingCoefs(s.TemperatureOversampling)))
            + RoundF32(RoundF32(F32_2_3 * oversamplingCoefs(s.PressureOversampling))
                       + F32_0_575))
            + RoundF32(RoundF32(F32_2_3 * oversamplingCoefs(s.HumidityOversampling))
                       + F32_0_575)))

(* forceMeasurement that does not look at the mode it has read *)
forceMeasurement_noCheck(b, e) ==
    The({ IF g.err # NoError THEN Result(g.b, g.err) ELSE
    The({ IF gs.err # NoError THEN Result(gs.b, gs.err) ELSE
    The({ IF w1.err # NoError THEN Result(w1.b, w1.err) ELSE
    The({ IF w2.err # NoError THEN Result(w2.b, w2.err)
          ELSE Result(timeSleep(w2.b, measTimeMicros(gs.s)), NoError)
        : w2 \in {WriteReg(w1.b, e, ctrlMeasAddr,
                     Or(ModeForced,
                        Or(Shl8(And(gs.s.PressureOversampling, 7), 2),
                           Shl8(And(gs.s.TemperatureOversampling, 7), 5))))} })
        : w1 \in {WriteReg(gs.b, e, ctrlHumAddr,
                           And(gs.s.HumidityOversampling, 7))} })
        : gs \in {GetSettings(g.b, e)} })
        : g \in {GetMode(b, e)} })

forceMeasurement(b, e) ==
    The({ IF g.err # NoError THEN Result(g.b, g.err)
          ELSE IF g.mode = ModeNormal THEN Result(g.b, NormalModeError) ELSE
    The({ IF gs.err # NoError THEN Result(gs.b, gs.err) ELSE
    The({ IF w1.err # NoError THEN Result(w1.b, w1.err) ELSE
    The({ IF w2.err # NoError THEN Result(w2.b, w2.err)
          ELSE Result(timeSleep(w2.b, measTimeMicros(gs.s)), NoError)
        : w2 \in {WriteReg(w1.b, e, ctrlMeasAddr,
                     Or(ModeForced,
                        Or(Shl8(And(gs.s.PressureOversampling, 7), 2),
                           Shl8(And(gs.s.TemperatureOversampling, 7), 5))))} })
        : w1 \in {WriteReg(gs.b, e, ctrlHumAddr,
                           And(gs.s.HumidityOversampling, 7))} })
        : gs \in {GetSettings(g.b, e)} })
        : g \in {GetMode(b, e)} })

(* Response: temperature in 1/100, pressure in 1/10000, humidity in 1/1000 *)
ZeroResponse == [Temperature |-> 0, Pressure |-> 0, Humidity |-> 0]

(* ucompData of the 8-byte burst *)
RawPress(buf) == buf[1] * 4096 + buf[2] * 16 + Shr(buf[3], 4)
RawTemp(buf)  == buf[4] * 4096 + buf[5] * 16 + Shr(buf[6], 4)
RawHum(buf)   == buf[7] * 256 + buf[8]

(* Read that compensates pressure and humidity before it stores the fine   *)
(* temperature of the sample                                               *)
Read_staleTFine(dr, b, e) ==
    The({ IF f.err # NoError
          THEN [d |-> dr, b |-> f.b, err |-> f.err, resp |-> ZeroResponse,
                data |-> <<>>] ELSE
    The({ IF r.err # NoError
          THEN [d |-> dr, b |-> r.b, err |-> r.err, resp |-> ZeroResponse,
                data |-> <<>>] ELSE
    The({ [d |-> [dr EXCEPT !.calib.tFine = t.tFine], b |-> r.b,
           err |-> NoError, data |-> r.buf,
           resp |-> [Temperature |-> t.temp,
                     Pressure    |-> compensatePressure(dr.calib, RawPress(r.buf)),
                     Humidity    |-> compensateHumidity(dr.calib, RawHum(r.buf))]]
        : t \in {compensateTemperature(dr.calib, RawTemp(r.buf))} })
        : r \in {ReadReg(f.b, e, dataAddr, 8)} })
        : f \in {IF dr.mode = ModeForced THEN forceMeasurement(b, e)
                 ELSE Result(b, NoError)} })

Read(dr, b, e) ==
    The({ IF f.err # NoError
          THEN [d |-> dr, b |-> f.b, err |-> f.err, resp |-> ZeroResponse,
                data |-> <<>>] ELSE
    The({ IF r.err # NoError
          THEN [d |-> dr, b |-> r.b, err |-> r.err, resp |-> ZeroResponse,
                data |-> <<>>] ELSE
    The({
    The({ [d |-> d1, b |-> r.b, err |-> NoError, data |-> r.buf,
           resp |-> [Temperature |-> t.temp,
                     Pressure    |-> compensatePressure(d1.calib, RawPress(r.buf)),
                     Humidity    |-> compensateHumidity(d1.calib, RawHum(r.buf))]]
        : d1 \in {[dr EXCEPT !.calib.tFine = t.tFine]} })
        : t \in {compensateTemperature(dr.calib, RawTemp(r.buf))} })
        : r \in {ReadReg(f.b, e, dataAddr, 8)} })
        : f \in {IF dr.mode = ModeForced THEN forceMeasurement(b, e)
                 ELSE Result(b, NoError)} })

InitWith(dr, b, e, mode, c) ==
    The({ IF i.err # NoError THEN i ELSE
    The({ IF ss.err # NoError THEN [d |-> i.d, b |-> ss.b, err |-> ss.err]
          ELSE SetMode(i.d, ss.b, e, mode)
        : ss \in {SetSettings(i.b, e, c)} })
        : i \in {Init(dr, b, e)} })

----------------------------------------------------------------------------
(* The state machine: one action per exported method, one for the device  *)

MaxFailAt   == 16   \* the bus may fail any one of the first MaxFailAt operations
MaxIdBad    == 7    \* up to MaxIdBad leading identity reads fail or mismatch

Modes == {ModeSleep, ModeForced, ModeNormal}

SettingsInputs ==
    { MkSettings(0, 5, 5, 5, 5),      \* every oversampling at x16
      MkSettings(4, 7, 1, 2, 3) }

(* the registers the driver may find when it is attached to the device *)
InitialRegs ==
    { ResetRegs,
      [F2 |-> 250, F4 |-> 39, F5 |-> 163] }   \* Normal mode, bits outside the fields set

Env(fail, wrong, tag, burst) ==
    [fail |-> fail, wrong |-> wrong, tag |-> tag, burst |-> burst]

(* a bus that fails its f-th operation of the call (none when f = 0) *)
OneFault(f) == IF f = 0 THEN {} ELSE {f}

NoFault == Env({}, {}, 1, 1)

(* one-fault environments for a call that issues n operations when no     *)
(* operation fails                                                         *)
CallEnvs(n) == { Env(OneFault(f), {}, 1, 1) : f \in 0..Min(MaxFailAt, n) }

(* the first k identity reads fail (or return a wrong byte), k <= maxK;   *)
(* then the j-th operation after the identity poll fails                   *)
InitEnvsOf(maxK, tags) ==
    { Env((IF bad = "err" THEN 1..k ELSE {})
              \cup OneFault(IF j = 0 THEN 0 ELSE k + 1 + j),
          IF bad = "wrong" THEN 1..k ELSE {}, tag, 1) :
        k \in 0..maxK, bad \in {"err", "wrong"}, j \in 0..3, tag \in tags }

InitEnvs == InitEnvsOf(MaxIdBad, 1..MaxCalibTag)

NewDriver == [mode |-> 0, initialized |-> FALSE, calib |-> ZeroCalib]

(* the record of a call: its name and arguments, what it returned, the    *)
(* bus trace it produced, and the state it started from                    *)
Call(op, m, s, r) ==
    [op |-> op, m |-> m, s |-> s, err |-> r.err, trace |-> r.b.trace,
     was |-> [regs |-> regs, mode |-> d.mode, initialized |-> d.initialized,
              tFine |-> d.calib.tFine],
     outS |-> ZeroSettings, outM |-> 0, resp |-> ZeroResponse, data |-> <<>>]

NoCall ==
    [op |-> "New", m |-> 0, s |-> ZeroSettings, err |-> NoError, trace |-> <<>>,
     was |-> [regs |-> regs, mode |-> d.mode, initialized |-> d.initialized,
              tFine |-> d.calib.tFine],
     outS |-> ZeroSettings, outM |-> 0, resp |-> ZeroResponse, data |-> <<>>]

New ==
    /\ regs \in InitialRegs
    /\ d = NewDriver
    /\ last = NoCall

InitCall(envs) ==
    \E e \in envs :
        \E r \in {Init(d, NewBus(regs), e)} :
            /\ regs' = r.b.regs
            /\ d' = r.d
            /\ last' = Call("Init", 0, ZeroSettings, r)

DoInit == InitCall(InitEnvsOf(1, {1}))

DoInitWith ==
    \E m \in {ModeForced, ModeNormal}, s \in {MkSettings(0, 5, 5, 5, 5)} :
        \E e \in CallEnvs(InitWith(d, NewBus(regs), NoFault, m, s).b.n) :
            \E r \in {InitWith(d, NewBus(regs), e, m, s)} :
                /\ regs' = r.b.regs
                /\ d' = r.d
                /\ last' = Call("InitWith", m, s, r)

SetSettingsCall(s, e) ==
    \E r \in {SetSettings(NewBus(regs), e, s)} :
        /\ regs' = r.b.regs
        /\ d' = d
        /\ last' = Call("SetSettings", 0, s, r)

DoSetSettings ==
    \E s \in SettingsInputs :
        \E e \in CallEnvs(SetSettings(NewBus(regs), NoFault, s).b.n) :
            SetSettingsCall(s, e)

SetModeCall(m, e) ==
    \E r \in {SetMode(d, NewBus(regs), e, m)} :
        /\ regs' = r.b.regs
        /\ d' = r.d
        /\ last' = Call("SetMode", m, ZeroSettings, r)

DoSetMode ==
    \E m \in Modes :
        \E e \in CallEnvs(SetMode(d, NewBus(regs), NoFault, m).b.n) :
            SetModeCall(m, e)

GetSettingsCall(e) ==
    \E r \in {GetSettings(NewBus(regs), e)} :
        /\ regs' = r.b.regs
        /\ d' = d
        /\ last' = [Call("GetSettings", 0, ZeroSettings, r) EXCEPT !.outS = r.s]

DoGetSettings == \E e \in CallEnvs(3) : GetSettingsCall(e)

DoGetMode ==
    \E e \in CallEnvs(1) :
        \E r \in {GetMode(NewBus(regs), e)} :
            /\ regs' = r.b.regs
            /\ d' = d
            /\ last' = [Call("GetMode", 0, ZeroSettings, r) EXCEPT !.outM = r.mode]

SleepCall(e) ==
    \E r \in {Sleep(NewBus(regs), e)} :
        /\ regs' = r.b.regs
        /\ d' = d
        /\ last' = Call("Sleep", 0, ZeroSettings, r)

DoSleep == \E e \in CallEnvs(Sleep(NewBus(regs), NoFault).b.n) : SleepCall(e)

ReadCall(e) ==
    \E r \in {Read(d, NewBus(regs), e)} :
        /\ regs' = r.b.regs
        /\ d' = r.d
        /\ last' = [Call("Read", 0, ZeroSettings, r) EXCEPT !.resp = r.resp,
                                                          !.data = r.data]

DoRead ==
    \E k \in 1..MaxBurst :
        \E e \in CallEnvs(Read(d, NewBus(regs), NoFault).b.n) :
            ReadCall([e EXCEPT !.burst = k])

(* the device finishes a forced measurement and returns to sleep *)
DeviceMeasured ==
    /\ DevModeBits(regs) = ModeForced
    /\ regs' = [regs EXCEPT !.F4 = AndNot(regs.F4, 3)]
    /\ UNCHANGED <<d, last>>

(* no bus operation of the last call has failed *)
BusHealthy == \A i \in DOMAIN last.trace : last.trace[i].ok

Next ==
    \/ BusHealthy /\ DoInit
    \/ BusHealthy /\ DoInitWith
    \/ BusHealthy /\ DoSetSettings
    \/ BusHealthy /\ DoSetMode
    \/ BusHealthy /\ DoGetSettings
    \/ BusHealthy /\ DoGetMode
    \/ BusHealthy /\ DoSleep
    \/ BusHealthy /\ DoRead
    \/ BusHealthy /\ DeviceMeasured

(* The driver's life on a bus that fails at most one operation: the       *)
(* behaviour is followed up to and including the call in which the bus    *)
(* fails.                                                                  *)
Spec == New /\ [][Next]_vars

(* Init alone, under every behaviour of the identity poll *)
DoInitPoll == InitCall(InitEnvs)

SpecInit == New /\ [][DoInitPoll]_vars

----------------------------------------------------------------------------
(* Single fault-free calls from a wide range of device register states    *)

RegPool ==
    { [F2 |-> f2, F4 |-> f4, F5 |-> f5] :
        f2 \in {0, 5, 7, 250}, f4 \in 0..255,
        f5 \in {0, 3, 28, 84, 163, 171, 224, 255} }

NewRegs ==
    /\ regs \in RegPool
    /\ d = NewDriver
    /\ last = NoCall

RegsSleep       == last.op = "New" /\ SleepCall(NoFault)
RegsSetMode     == last.op = "New" /\ \E m \in Modes : SetModeCall(m, NoFault)
RegsGetSettings == last.op = "New" /\ GetSettingsCall(NoFault)

NextRegs ==
    \/ RegsSleep
    \/ RegsSetMode
    \/ RegsGetSettings

SpecRegs == NewRegs /\ [][NextRegs]_vars

----------------------------------------------------------------------------
(* The settings round trip: SetSettings(s), then GetSettings(), for every *)
(* Settings value built from the declared levels                           *)

MaxFilter  == 4     \* Filter16
MaxStandby == 7     \* StandByTime20ms

AllSettings ==
    { MkSettings(f, sb, p, t, h) :
        f \in 0..MaxFilter, sb \in 0..MaxStandby,
        p \in 0..Oversampling16x, t \in 0..Oversampling16x,
        h \in 0..Oversampling16x }

CodecRegs ==
    InitialRegs \cup { [F2 |-> 7, F4 |-> 255, F5 |-> 255],
                       [F2 |-> 0, F4 |-> 1, F5 |-> 0] }

NewCodec ==
    /\ regs \in CodecRegs
    /\ d = NewDriver
    /\ last = NoCall

CodecSet == last.op = "New" /\ \E s \in AllSettings : SetSettingsCall(s, NoFault)

(* GetSettings right after SetSettings(s); the call record keeps s *)
CodecGet ==
    /\ last.op = "SetSettings"
    /\ \E r \in {GetSettings(NewBus(regs), NoFault)} :
        /\ regs' = r.b.regs
        /\ d' = d
        /\ last' = [Call("GetSettings", 0, last.s, r) EXCEPT !.outS = r.s]

NextCodec ==
    \/ CodecSet
    \/ CodecGet

SpecCodec == NewCodec /\ [][NextCodec]_vars

----------------------------------------------------------------------------
(* The first call on a fresh driver is a SetMode on a bus that fails up to *)
(* two operations of the call; Reads follow.  SetMode returns nil and      *)
(* stores the mode whatever the bus did, so the driver's mode and the      *)
(* device's mode bits can differ.                                          *)

TwoFaults(n) == {{}} \cup { {i, j} : i, j \in 1..Min(MaxFailAt, n) }

FaultsSetMode ==
    /\ last.op = "New"
    /\ \E m \in Modes :
         \E f \in TwoFaults(SetMode(d, NewBus(regs), NoFault, m).b.n) :
             SetModeCall(m, Env(f, {}, 1, 1))

NextFaults ==
    \/ FaultsSetMode
    \/ DoRead
    \/ DeviceMeasured

SpecFaults == New /\ [][NextFaults]_vars

----------------------------------------------------------------------------
(* The three compensation functions, each applied once to a raw value,    *)
(* for calibration coefficients and fine temperatures that include the    *)
(* extremes of their types                                                 *)

(* a block of n bytes that repeats the byte pair <<lo, hi>> *)
PairBlock(lo, hi, n) == SubSeq([i \in 1..n |-> IF i % 2 = 1 THEN lo ELSE hi], 1, n)

BytePairs == { <<0, 0>>, <<255, 255>>, <<255, 127>>, <<0, 128>>, <<1, 0>> }

CalibTPPool ==
    { CalibTPBlock(tag) : tag \in 1..MaxCalibTag }
        \cup { PairBlock(bp[1], bp[2], 26) : bp \in BytePairs }

CalibHPool ==
    { CalibHBlock(tag) : tag \in 1..MaxCalibTag }
        \cup { PairBlock(bp[1], bp[2], 7) : bp \in BytePairs }

TFinePool == { -2147483647 - 1, -128000, -1, 0, 76800, 128000, 128423, 2147483647 }

Raw20Pool == { 0, 1, 415148, 519888, 524288, 1048575 }
Raw16Pool == { 0, 1, 30000, 32768, 65535 }

NewComp ==
    /\ regs = ResetRegs
    /\ \E tp \in CalibTPPool, h \in CalibHPool, tf \in TFinePool :
           d = [NewDriver EXCEPT
                    !.calib = [DecodeH(DecodeTP(ZeroCalib, tp), h) EXCEPT !.tFine = tf]]
    /\ last = NoCall

Applied(op, u) ==
    [Call(op, 0, ZeroSettings, Result(NewBus(regs), NoError)) EXCEPT !.data = <<u>>]

CompTemperature ==
    /\ last.op = "New"
    /\ \E u \in Raw20Pool :
           last' = [Applied("compensateTemperature", u) EXCEPT
                        !.resp.Temperature = compensateTemperature(d.calib, u).temp]
    /\ UNCHANGED <<regs, d>>

CompPressure ==
    /\ last.op = "New"
    /\ \E u \in Raw20Pool :
           last' = [Applied("compensatePressure", u) EXCEPT
                        !.resp.Pressure = compensatePressure(d.calib, u)]
    /\ UNCHANGED <<regs, d>>

CompHumidity ==
    /\ last.op = "New"
    /\ \E u \in Raw16Pool :
           last' = [Applied("compensateHumidity", u) EXCEPT
                        !.resp.Humidity = compensateHumidity(d.calib, u)]
    /\ UNCHANGED <<regs, d>>

NextComp ==
    \/ CompTemperature
    \/ CompPressure
    \/ CompHumidity

SpecComp == NewComp /\ [][NextComp]_vars

----------------------------------------------------------------------------
(* The decoding of the humidity calibration block: the assignments of     *)
(* readCalibData after its second read, for the bytes the packed           *)
(* coefficients H4 and H5 are taken from                                   *)

HBlockPool ==
    { <<93, 1, 0, b3, b4, b5, 30>> :
        b3 \in {0, 5, 21, 127, 128, 255},
        b4 \in {0, 15, 41, 196, 240, 255},
        b5 \in 0..255 }

NewCalib ==
    /\ regs = ResetRegs
    /\ d = NewDriver
    /\ last = NoCall

DecodeHumidity ==
    /\ last.op = "New"
    /\ \E buf \in HBlockPool :
           /\ d' = [d EXCEPT !.calib = DecodeH(d.calib, buf)]
           /\ last' = [Applied("readCalibData", 0) EXCEPT !.data = buf]
    /\ UNCHANGED regs

SpecCalib == NewCalib /\ [][DecodeHumidity]_vars

----------------------------------------------------------------------------
(* A forced measurement for every combination of the three oversampling   *)
(* fields: SetMode(ModeForced) on a sleeping device, then Read()           *)

OversamplingRegs ==
    { [F2 |-> h, F4 |-> 32 * t + 4 * p, F5 |-> 0] : h, t, p \in 0..7 }

NewForced ==
    /\ regs \in OversamplingRegs
    /\ d = NewDriver
    /\ last = NoCall

ForcedSetMode == last.op = "New" /\ SetModeCall(ModeForced, NoFault)

ForcedRead == last.op = "SetMode" /\ \E k \in 1..MaxBurst : ReadCall(Env({}, {}, 1, k))

NextForced ==
    \/ ForcedSetMode
    \/ ForcedRead

SpecForced == NewForced /\ [][NextForced]_vars

----------------------------------------------------------------------------
(* Properties *)

(* the bus operations of a trace, without the waits *)
BusOps(tr) == SelectSeq(tr, LAMBDA ev : ev.kind # "S")

IsRead(ev, addr, n)    == ev.kind = "R" /\ ev.addr = addr /\ ev.len = n
IsWrite(ev, addr, val) == ev.kind = "W" /\ ev.addr = addr /\ ev.val = val
IsIdRead(ev)           == IsRead(ev, chipIdAddr, 1)
IdMatched(ev)          == IsIdRead(ev) /\ ev.ok /\ ev.val = chipId
IsResetOk(ev)          == IsWrite(ev, resetAddr, softResetCmd) /\ ev.ok
IsSettingsWrite(ev) ==
    ev.kind = "W" /\ ev.addr \in {ctrlHumAddr, ctrlMeasAddr, configAddr}

IdReads(tr) == Len(SelectSeq(tr, IsIdRead))

FaultFree == \A i \in DOMAIN last.trace : last.trace[i].ok

(* C1: Read() on a driver on which Init() has never succeeded returns the  *)
(* "driver uninitialized" error, whatever the bus does.                    *)
C1_ReadUninitialized ==
    (last.op = "Read" /\ ~last.was.initialized)
        => last.err = UninitializedError

(* C2: Init() reads the chip-identity register at most 5 times per call,   *)
(* and succeeds only if one of the first 5 reads returns 0x60.             *)
C2_AtMostFiveIdReads ==
    last.op = "Init" =>
        /\ IdReads(last.trace) <= 5
        /\ last.err = NoError =>
               \E i \in 1..5 : i <= Len(last.trace) /\ IdMatched(last.trace[i])

(* C3: in every Init() call the bus operations are, in this order, the     *)
(* identity reads up to the first match, the soft-reset write (0xB6 to     *)
(* 0xE0), the 26-byte read at 0x88 and the 7-byte read at 0xE1, each       *)
(* issued only if the one before succeeded; no write is issued before the  *)
(* identity byte has matched; and initialized turns from false to true     *)
(* only in a call whose two calibration reads both succeeded.              *)
InitOrder(ops, k) ==
    /\ \A i \in 1..k : IsIdRead(ops[i])
    /\ \A i \in 1..(k - 1) : ~IdMatched(ops[i])
    /\ Len(ops) <= k + 3
    /\ Len(ops) > k => IdMatched(ops[k]) /\ IsWrite(ops[k + 1], resetAddr, softResetCmd)
    /\ Len(ops) > k + 1 =>
           ops[k + 1].ok /\ IsRead(ops[k + 2], tempPressCalibDataAddr, 26)
    /\ Len(ops) > k + 2 =>
           ops[k + 2].ok /\ IsRead(ops[k + 3], humidityCalibDataAddr, 7)

C3_InitSequence ==
    last.op = "Init" =>
        \E k \in 1..Len(BusOps(last.trace)) :
            /\ InitOrder(BusOps(last.trace), k)
            /\ (d.initialized /\ ~last.was.initialized) =>
                   /\ Len(BusOps(last.trace)) = k + 3
                   /\ BusOps(last.trace)[k + 2].ok
                   /\ BusOps(last.trace)[k + 3].ok

(* an Init that succeeded on its third identity read *)
C3_Witness ==
    /\ last.op = "Init"
    /\ last.err = NoError
    /\ d.initialized /\ ~last.was.initialized
    /\ Len(BusOps(last.trace)) = 6
    /\ ~last.trace[1].ok

(* C4: on a fault-free bus, SetSettings(s) followed by GetSettings()       *)
(* returns exactly s, for every Settings value built from the declared     *)
(* levels (Filter 0..4, StandByTime 0..7, each Oversampling 0..5).         *)
C4_RoundTrip ==
    last.op = "GetSettings" => (last.err = NoError /\ last.outS = last.s)

(* the round trip of a Settings value, started with the device not asleep  *)
(* and every register bit set                                              *)
C4_Witness ==
    /\ last.op = "GetSettings"
    /\ last.s = MkSettings(4, 7, 5, 3, 1)
    /\ last.outS = last.s
    /\ regs = [F2 |-> 1, F4 |-> 116, F5 |-> 240]

(* C5: GetSettings() decodes the oversampling field values 5, 6 and 7 to   *)
(* the same level, 16x (value 5), for temperature, pressure and humidity.  *)
C5_SixteenXCollapse ==
    (last.op = "GetSettings" /\ last.err = NoError) =>
        /\ (last.was.regs.F4 \div 32) % 8 >= 5
               => last.outS.TemperatureOversampling = Oversampling16x
        /\ (last.was.regs.F4 \div 4) % 8 >= 5
               => last.outS.PressureOversampling = Oversampling16x
        /\ last.was.regs.F2 % 8 >= 5
               => last.outS.HumidityOversampling = Oversampling16x

PublicOps ==
    {"Init", "InitWith", "SetSettings", "SetMode", "GetSettings", "GetMode",
     "Sleep", "Read"}

(* C6: every public operation returns an error whenever one of the bus     *)
(* reads or writes it performs fails (an identity read that Init retries   *)
(* is not counted); in particular SetMode(m) does.                         *)
C6_ErrorsPropagate ==
    (/\ last.op \in PublicOps
     /\ \E i \in DOMAIN last.trace : ~last.trace[i].ok /\ ~IsIdRead(last.trace[i]))
        => last.err # NoError

(* C7: in Sleep() and SetSettings(s), the first bus operation that fails   *)
(* is the last thing the call does, and the call returns that failure;     *)
(* without a failure it returns nil.                                       *)
C7_ShortCircuit ==
    last.op \in {"Sleep", "SetSettings"} =>
        /\ \A i \in DOMAIN last.trace :
               ~last.trace[i].ok => (i = Len(last.trace) /\ last.err = BusError)
        /\ FaultFree => last.err = NoError

(* SetSettings on a device that is not asleep, with the soft reset of its  *)
(* Sleep() failing: GetMode, three reads of GetSettings, the reset write   *)
C7_Witness ==
    /\ last.op = "SetSettings"
    /\ Len(last.trace) = 5
    /\ IsWrite(last.trace[5], resetAddr, softResetCmd)
    /\ ~last.trace[5].ok
    /\ last.err = BusError

(* C8: SetSettings(s) writes the settings registers (0xF2, 0xF4, 0xF5)     *)
(* only while the device's mode bits are Sleep; if the mode read at the    *)
(* start is not Sleep, the soft reset of a Sleep() precedes every settings *)
(* write of the call, and the writes of s itself (those after the tenth   *)
(* bus operation) come after that Sleep() has completed.                   *)
SleepCompleted(ops) ==
    /\ Len(ops) >= 10
    /\ \A j \in 2..10 : ops[j].ok
    /\ IsResetOk(ops[5])
    /\ Len(SelectSeq(SubSeq(ops, 6, 10), IsSettingsWrite)) = 3

C8_WritesWhileAsleep ==
    last.op = "SetSettings" =>
        \A i \in DOMAIN BusOps(last.trace) :
            IsSettingsWrite(BusOps(last.trace)[i]) =>
                /\ BusOps(last.trace)[i].mode = ModeSleep
                /\ (last.trace[1].ok /\ last.trace[1].mode # ModeSleep) =>
                       /\ \E j \in 1..(i - 1) : IsResetOk(BusOps(last.trace)[j])
                       /\ i > 10 => SleepCompleted(BusOps(last.trace))

(* a SetSettings that found the device in Normal mode and completed *)
C8_Witness ==
    /\ last.op = "SetSettings"
    /\ last.err = NoError
    /\ last.trace[1].mode = ModeNormal
    /\ Len(BusOps(last.trace)) = 15
    /\ IsWrite(BusOps(last.trace)[15], configAddr, last.s.Filter * 4 + last.s.Standby * 32)

(* C9: on a fault-free bus, for every device register state, after         *)
(* Sleep() returns the device's mode bits are Sleep and GetSettings()      *)
(* returns what it would have returned before the call.                    *)
C9_SleepKeepsSettings ==
    last.op = "Sleep" =>
        /\ last.err = NoError
        /\ DevModeBits(regs) = ModeSleep
        /\ GetSettings(NewBus(regs), NoFault).s
               = GetSettings(NewBus(last.was.regs), NoFault).s

(* Sleep() on a device in Normal mode with every field at a non-zero value *)
C9_Witness ==
    /\ last.op = "Sleep"
    /\ last.was.regs = [F2 |-> 250, F4 |-> 183, F5 |-> 171]
    /\ regs = [F2 |-> 2, F4 |-> 180, F5 |-> 168]

(* C10: on a fault-free bus, for every starting mode and every m in        *)
(* {Sleep, Forced, Normal}, after SetMode(m) returns the low 2 bits of     *)
(* register 0xF4 equal m, the driver's in-memory mode equals m, and        *)
(* GetSettings() reads back the same settings as before the call.          *)
C10_SetModeKeepsSettings ==
    last.op = "SetMode" =>
        /\ last.err = NoError
        /\ DevModeBits(regs) = last.m
        /\ d.mode = last.m
        /\ GetSettings(NewBus(regs), NoFault).s
               = GetSettings(NewBus(last.was.regs), NoFault).s

(* SetMode(Normal) on a device in Forced mode with non-zero settings *)
C10_Witness ==
    /\ last.op = "SetMode"
    /\ last.m = ModeNormal
    /\ DevModeBits(last.was.regs) = ModeForced
    /\ last.was.regs.F4 = 181
    /\ regs.F4 = 183
    /\ d.mode = ModeNormal

(* C11: whenever the forced-measurement step of Read() finds the device's  *)
(* mode bits at Normal, Read() fails with the "sensor in normal mode"      *)
(* error and the mode read is the only bus operation: no write is issued.  *)
ForcedStepInNormal ==
    /\ last.op = "Read"
    /\ last.was.mode = ModeForced
    /\ DevModeBits(last.was.regs) = ModeNormal
    /\ Len(last.trace) >= 1
    /\ last.trace[1].ok

C11_ForceInNormalFails ==
    ForcedStepInNormal =>
        /\ last.err = NormalModeError
        /\ Len(last.trace) = 1
        /\ IsRead(last.trace[1], pwrCtrlAddr, 1)
        /\ \A i \in DOMAIN last.trace : last.trace[i].kind # "W"
        /\ regs = last.was.regs

C11_Witness ==
    /\ ForcedStepInNormal
    /\ last.err = NormalModeError
    /\ last.was.regs.F4 = 39


(* C12: for every raw pressure, fine temperature and coefficient set with  *)
(* a non-zero denominator, compensatePressure returns a value within       *)
(* [3000.00, 11000.00].  Pressure is held in units of 1/10000.             *)
PressureDenominator ==
    pressureV1(d.calib, Sub64(I64(d.calib.tFine), I64(128000)))

PressureApplied ==
    last.op = "compensatePressure" /\ ~IsZeroL(PressureDenominator)

ClampMinimum == 3000000     \* pmin / 100.0 / 100.0, in units of 1/10000

C13_ZeroDenominator ==
    (last.op = "compensatePressure" /\ IsZeroL(PressureDenominator)) =>
        /\ last.resp.Pressure = 3000 * 10000
        /\ last.resp.Pressure = ClampMinimum

(* C15: compensateTemperature returns a value within [-40.00, 85.00] and   *)
(* compensateHumidity a value within [0, 100.000], for every raw input,    *)
(* fine temperature and coefficient set, also when int32 values wrap.      *)
C15_TempHumidityRange ==
    /\ last.op = "compensateTemperature" =>
           last.resp.Temperature >= -4000 /\ last.resp.Temperature <= 8500
    /\ last.op = "compensateHumidity" =>
           last.resp.Humidity >= 0 /\ last.resp.Humidity <= 100000

(* humidity clamped at 100.000 where tFine - 76800 wraps *)
C15_Witness ==
    /\ last.op = "compensateHumidity"
    /\ last.resp.Humidity = 100000
    /\ d.calib.tFine = -2147483647 - 1


(* C14: for every humidity calibration block b (bytes b[0]..b[6]), the     *)
(* decoded H5 equals (signed8(b[5]) * 16) | (b[4] >> 4) as a 16-bit signed *)
(* value, so it ranges over -2048..2047, and H4 equals                     *)
(* (b[3] * 16) | (b[4] & 0x0F).  The low four bits of both products are    *)
(* zero, so each | is a sum.                                               *)
C14_PackedHumidityCoefs ==
    last.op = "readCalibData" =>
        /\ d.calib.h5 = Int8(last.data[6]) * 16 + (last.data[5] \div 16)
        /\ d.calib.h4 = last.data[4] * 16 + (last.data[5] % 16)


(* C16: in a forced measurement the wait before the data read is, in       *)
(* microseconds, 1250 + 2300*T_coef + (2300*P_coef + 575 if P is not off)  *)
(* + (2300*H_coef + 575 if H is not off), with coefficients 0, 1, 2, 4,    *)
(* 16, 16 for off, 1x, 2x, 4x, 8x, 16x and 16 for the encoded values 6, 7. *)
(* Every such sum is a whole number of microseconds.                       *)
ClaimedCoef(i) ==
    IF i = 0 THEN 0 ELSE IF i = 1 THEN 1 ELSE IF i = 2 THEN 2
    ELSE IF i = 3 THEN 4 ELSE 16

ClaimedWait(s) ==
    1250 + 2300 * ClaimedCoef(s.TemperatureOversampling)
         + (IF s.PressureOversampling # 0
            THEN 2300 * ClaimedCoef(s.PressureOversampling) + 575 ELSE 0)
         + (IF s.HumidityOversampling # 0
            THEN 2300 * ClaimedCoef(s.HumidityOversampling) + 575 ELSE 0)

ForcedReadDone ==
    last.op = "Read" /\ last.was.mode = ModeForced /\ last.err = NoError

C16_ForcedWait ==
    ForcedReadDone =>
        \E i \in DOMAIN last.trace :
            /\ last.trace[i].kind = "S"
            /\ last.trace[i].len
                   = ClaimedWait(GetSettings(NewBus(last.was.regs), NoFault).s)


(* C17: in every successful Read() the fine temperature used by pressure   *)
(* and humidity compensation is the one computed from the raw temperature  *)
(* of that Read's own burst, never the value an earlier Read left behind   *)
(* nor the initial zero.                                                   *)
ReadDone == last.op = "Read" /\ last.err = NoError

C17_FreshFineTemperature ==
    ReadDone =>
        \A tf \in {compensateTemperature(d.calib, RawTemp(last.data)).tFine} :
            /\ d.calib.tFine = tf
            /\ last.resp.Pressure
                   = compensatePressure([d.calib EXCEPT !.tFine = tf],
                                        RawPress(last.data))
            /\ last.resp.Humidity
                   = compensateHumidity([d.calib EXCEPT !.tFine = tf],
                                        RawHum(last.data))

(* a Read on a calibrated driver that follows a Read of another sample,    *)
(* where the stale fine temperature would give another pressure            *)
C17_Witness ==
    /\ ReadDone
    /\ d.initialized
    /\ last.was.tFine # 0
    /\ last.was.tFine # d.calib.tFine
    /\ last.resp.Pressure
           # compensatePressure([d.calib EXCEPT !.tFine = last.was.tFine],
                                RawPress(last.data))


(* C18: in SetSettings, Sleep and the forced-measurement cycle of Read,    *)
(* every write to the measurement-control register 0xF4 comes after a      *)
(* write to the humidity-control register 0xF2 of the same group, with no  *)
(* other 0xF4 write in between; and in a forced Read both writes and the   *)
(* wait are complete before the 8-byte data read at 0xF7.                  *)
IsWriteTo(ev, addr) == ev.kind = "W" /\ ev.addr = addr

HumidityWrittenBefore(tr, i) ==
    \E j \in 1..(i - 1) :
        /\ IsWriteTo(tr[j], ctrlHumAddr) /\ tr[j].ok
        /\ \A k \in (j + 1)..(i - 1) : ~IsWriteTo(tr[k], ctrlMeasAddr)

ForcedCycleBefore(tr, i) ==
    \E j, k, w \in 1..(i - 1) :
        /\ j < k /\ k < w
        /\ IsWriteTo(tr[j], ctrlHumAddr) /\ tr[j].ok
        /\ IsWriteTo(tr[k], ctrlMeasAddr) /\ tr[k].ok /\ tr[k].val % 4 = ModeForced
        /\ tr[w].kind = "S"

C18_HumidityBeforeMeas ==
    last.op \in {"SetSettings", "Sleep", "Read"} =>
        /\ \A i \in DOMAIN last.trace :
               IsWriteTo(last.trace[i], ctrlMeasAddr)
                   => HumidityWrittenBefore(last.trace, i)
        /\ \A i \in DOMAIN last.trace :
               (last.op = "Read" /\ last.was.mode = ModeForced
                    /\ IsRead(last.trace[i], dataAddr, 8))
                   => ForcedCycleBefore(last.trace, i)

(* a forced Read that reached its data read, with a humidity setting *)
C18_Witness ==
    /\ ForcedReadDone
    /\ \E i \in DOMAIN last.trace :
           IsWriteTo(last.trace[i], ctrlHumAddr) /\ last.trace[i].val # 0
    /\ \E i \in DOMAIN last.trace : IsRead(last.trace[i], dataAddr, 8)


(* C19: on a bus that never fails, after successful calls only, whenever   *)
(* the driver's in-memory mode is Normal the device's mode bits (register  *)
(* 0xF4, bits 1:0) are Normal too: no operation puts the device to sleep   *)
(* while the driver still believes it samples continuously.                *)
C19_NormalModeInSync ==
    (BusHealthy /\ last.err = NoError /\ d.mode = ModeNormal)
        => DevModeBits(regs) = ModeNormal


(* C20: after any sequence of Init() calls on a bus that may fail any      *)
(* operation, whenever the initialized flag is set the 18 calibration      *)
(* coefficients of the driver are those of the two calibration reads of    *)
(* one single load, never a mixture of two loads.                          *)
CalibOfLoad(tag) ==
    DecodeH(DecodeTP(ZeroCalib, CalibTPBlock(tag)), CalibHBlock(tag))

C20_CalibFromOneLoad ==
    d.initialized =>
        \E tag \in 1..MaxCalibTag :
            [d.calib EXCEPT !.tFine = 0] = CalibOfLoad(tag)


====
